---- MODULE Spec2Model ----
(***************************************************************************)
(* A model of src/app.py: the shared Data store of three patient datasets  *)
(* (SAMSA, TES, KORTTID), their CSV files, and the widgets that mutate and *)
(* observe them (ADDPatient, DeletePatient, UpdateSamsa, UpdateNote,       *)
(* Display).                                                               *)
(*                                                                         *)
(* Text is modelled as a sequence of one-character strings, so that the    *)
(* code's slicing, splitting, pattern matching and the CSV reader's type   *)
(* inference are computed, not assumed.                                    *)
(***************************************************************************)
EXTENDS Integers, Sequences, FiniteSets, TLC

\* --------------------------------------------------------------------------
\* Bounds of the model
\* --------------------------------------------------------------------------

\* Number of events of the user (button clicks, cell edits) in one session.
MaxOps == 3

\* Number of events in a session that works on the SAMSA dataset only.
MaxSamsaOps == 4

\* Number of events in a session that enters free text into the SAMSA dataset.
MaxTextOps == 4

\* Number of events in a session that tries the identity check on the SAMSA dataset.
MaxFormatOps == 3

\* Number of calls of Data.register_observer in a session that fills the registry.
MaxRegistrations == 4

\* Number of events in a session that writes into cells of the Typ column.
MaxTypOps == 3

\* Number of events in a session in which accesses of samsa.csv may fail, and the
\* latest access of an event that may be the failing one.
MaxFaultOps == 2
MaxFaultAt == 6

\* --------------------------------------------------------------------------
\* Text
\* --------------------------------------------------------------------------

PnrA == <<"0","1","0","1","0","1","-","1","2","3","4">>
PnrB == <<"0","2","0","2","0","2","-","2","3","4","5">>
PnrBad == <<"a","b","c">>
Dash == <<"-">>
Ann == <<"A","n","n">>
Bo == <<"B","o">>
Centrum == <<"C","e","n","t","r","u","m">>
Norrmalm == <<"N","o","r","r","m","a","l","m">>
Osterlanggatan4 == <<"Ö","s","t","e","r","l","å","n","g","g","a","t","a","n"," ","4">>
Margaretagatan9 == <<"M","a","r","g","a","r","e","t","a","g","a","t","a","n"," ","9">>
Ja == <<"J","a">>
Nej == <<"N","e","j">>
Nowhere == <<"N","o","w","h","e","r","e">>
Kanske == <<"K","a","n","s","k","e">>
Ring == <<"r","i","n","g">>
NanText == <<"n","a","n">>
NotAvailable == <<"N","/","A">>
PnrANewline == PnrA \o <<"\n">>
NewlinePnrB == <<"\n">> \o PnrB
SpacePnrA == <<" ">> \o PnrA
PnrASpace == PnrA \o <<" ">>

\* Characters in code-point order: Python compares str by code point.
CodePoints ==
    <<"\n"," ","#",",","-",".","/","0","1","2","3","4","5","6","7","8","9","<",">",
      "A","B","C","D","E","F","G","H","I","J","K","L","M","N","O","P","Q","R","S",
      "T","U","V","W","X","Y","Z","a","b","c","d","e","f","g","h","i","j","k","l",
      "m","n","o","p","q","r","s","t","u","v","w","x","y","z","Ö","å">>

Ord(ch) == CHOOSE i \in 1..Len(CodePoints) : CodePoints[i] = ch

Digits == {"0","1","2","3","4","5","6","7","8","9"}

DigitValue(ch) == Ord(ch) - Ord("0")

\* s < t for str: lexicographic by code point, a proper prefix first.
RECURSIVE TextLess(_, _)
TextLess(s, t) ==
    IF t = <<>> THEN FALSE
    ELSE IF s = <<>> THEN TRUE
    ELSE IF s[1] # t[1] THEN Ord(s[1]) < Ord(t[1])
    ELSE TextLess(Tail(s), Tail(t))

\* s[0:n]
Slice(s, n) == SubSeq(s, 1, IF Len(s) < n THEN Len(s) ELSE n)

\* s.replace(ch, "")
RECURSIVE Remove(_, _)
Remove(s, ch) ==
    IF s = <<>> THEN <<>>
    ELSE IF s[1] = ch THEN Remove(Tail(s), ch)
    ELSE <<s[1]>> \o Remove(Tail(s), ch)

\* s.split(sep=ch): always at least one piece
RECURSIVE Split(_, _)
Split(s, ch) ==
    IF \A i \in 1..Len(s) : s[i] # ch THEN <<s>>
    ELSE LET k == CHOOSE i \in 1..Len(s) :
                      s[i] = ch /\ \A j \in 1..(i-1) : s[j] # ch
         IN  <<SubSeq(s, 1, k-1)>> \o Split(SubSeq(s, k+1, Len(s)), ch)

SeqToSet(s) == {s[i] : i \in 1..Len(s)}

\* The enumerations of a finite set as a duplicate-free sequence
\* (the iteration orders a Python set may have).
Orders(S) ==
    {q \in [1..Cardinality(S) -> S] : \A i, j \in 1..Cardinality(S) : q[i] = q[j] => i = j}

\* bool(re.match(r'^\d{6}-\d{4}$', s)): "$" also matches before a final newline
check_format_personal_nr(s) ==
    /\ \/ Len(s) = 11
       \/ Len(s) = 12 /\ s[12] = "\n"
    /\ \A i \in 1..6 : s[i] \in Digits
    /\ s[7] = "-"
    /\ \A i \in 8..11 : s[i] \in Digits

\* --------------------------------------------------------------------------
\* The CSV codec (pandas read_csv / to_csv)
\* --------------------------------------------------------------------------

Header == <<"Personnummer", "Förnamn", "Efternamn", "Område", "Inskriven", "Typ", "Anteckning">>

NCols == Len(Header)

\* A file: its header line and its data rows, each row NCols texts; a file with
\* no header line is empty. This one is what Window.create_files writes.
HeaderOnly == [header |-> Header, rows |-> <<>>]

\* A cell of a DataFrame: its Python type and its str().
StrCell(t) == [k |-> "str", v |-> t]
NaN == [k |-> "nan", v |-> NanText]

\* Text read_csv takes for a missing value.
NaValues ==
    {<<>>,
     <<"#","N","/","A">>,
     <<"#","N","/","A"," ","N","/","A">>,
     <<"#","N","A">>,
     <<"-","1",".","#","I","N","D">>,
     <<"-","1",".","#","Q","N","A","N">>,
     <<"-","N","a","N">>,
     <<"-","n","a","n">>,
     <<"1",".","#","I","N","D">>,
     <<"1",".","#","Q","N","A","N">>,
     <<"<","N","A",">">>,
     <<"N","/","A">>,
     <<"N","A">>,
     <<"N","U","L","L">>,
     <<"N","a","N">>,
     <<"N","o","n","e">>,
     <<"n","/","a">>,
     <<"n","a","n">>,
     <<"n","u","l","l">>}

IsIntText(t) == Len(t) > 0 /\ \A i \in 1..Len(t) : t[i] \in Digits

IsFloatText(t) ==
    /\ Len(t) >= 3
    /\ t[Len(t)] = "0"
    /\ t[Len(t) - 1] = "."
    /\ IsIntText(SubSeq(t, 1, Len(t) - 2))

RECURSIVE StripZeros(_)
StripZeros(t) == IF Len(t) > 1 /\ t[1] = "0" THEN StripZeros(Tail(t)) ELSE t

\* The dtype read_csv infers for a column from all of its texts.
ColumnKind(texts) ==
    LET all == 1..Len(texts)
        vals == {i \in all : texts[i] \notin NaValues}
    IN  IF all = {} THEN "object"
        ELSE IF vals = {} THEN "float"
        ELSE IF \A i \in vals : IsIntText(texts[i])
             THEN (IF vals = all THEN "int" ELSE "float")
        ELSE IF \A i \in vals : IsIntText(texts[i]) \/ IsFloatText(texts[i]) THEN "float"
        ELSE "object"

ParseCell(kind, t) ==
    IF t \in NaValues THEN NaN
    ELSE IF kind = "int" THEN [k |-> "int", v |-> StripZeros(t)]
    ELSE IF kind = "float"
         THEN [k |-> "float",
               v |-> StripZeros(IF IsIntText(t) THEN t ELSE SubSeq(t, 1, Len(t) - 2)) \o <<".", "0">>]
    ELSE StrCell(t)

\* pd.read_csv(file) of a file that has a header: a DataFrame, here the sequence
\* of its rows, each with its index label and its cells; the index is 0..n-1.
read_csv(file) ==
    LET kind == [j \in 1..NCols |-> ColumnKind([i \in 1..Len(file.rows) |-> file.rows[i][j]])]
    IN  [i \in 1..Len(file.rows) |->
            [idx |-> i - 1,
             cells |-> [j \in 1..NCols |-> ParseCell(kind[j], file.rows[i][j])]]]

\* What to_csv writes for a cell: a missing value as nothing, the rest as its str().
CsvText(cell) == IF cell.k = "nan" THEN <<>> ELSE cell.v

\* df.to_csv(file, index=False): the header and one line per row, no index column
to_csv(df) ==
    [header |-> Header,
     rows |-> [i \in 1..Len(df) |-> [j \in 1..NCols |-> CsvText(df[i].cells[j])]]]

\* --------------------------------------------------------------------------
\* The world a handler runs in
\* --------------------------------------------------------------------------

Categories == {"SAMSA", "TES", "KORTTID"}

\* The text of a category in the "Typ" combo box of ADDPatient.
TypText(c) ==
    CASE c = "SAMSA" -> <<"S","A","M","S","A">>
      [] c = "TES" -> <<"T","E","S">>
      [] c = "KORTTID" -> <<"K","O","R","T","T","I","D">>

FileName(c) ==
    CASE c = "SAMSA" -> "samsa.csv"
      [] c = "TES" -> "tes.csv"
      [] c = "KORTTID" -> "korttid.csv"

\* Observer keys of Data._observers: the delete view, the note view, the grid.
KeyD(c) == CASE c = "SAMSA" -> "sd" [] c = "TES" -> "td" [] c = "KORTTID" -> "kd"
KeyC(c) == CASE c = "SAMSA" -> "sc" [] c = "TES" -> "tc" [] c = "KORTTID" -> "kc"
KeyDisplay(c) ==
    CASE c = "SAMSA" -> "display_samsa"
      [] c = "TES" -> "display_tes"
      [] c = "KORTTID" -> "display_korttid"

\* A grid cell that holds no QTableWidgetItem (after setRowCount).
NoItem == <<"\n", "\n">>

BlankRows(n) == [i \in 1..n |-> [j \in 1..NCols |-> NoItem]]

\* The UpdateSamsa text box before a summary is written to it.
NoSummary == [summary |-> FALSE, removed |-> <<>>, added |-> <<>>]

\* A raised exception ends the statements that follow it.
Raise(w, e) == [w EXCEPT !.exc = e]

\* An event of the run: what happened, and at which slot nesting depth.
Logged(w, e) == [w EXCEPT !.log = Append(@, [d |-> w.depth, e |-> e, x |-> "none"])]

\* An "except Exception: pass", which C28 must tell from the real handlers.
Caught_anything(w, e) ==
    IF w.exc = "none" THEN w
    ELSE [w EXCEPT !.exc = "none",
                   !.log = Append(@, [d |-> w.depth, e |-> "except", x |-> w.exc])]

\* The end of an observer whose last call returned in world w: logged, unless the
\* call raised.
Completed(w, e) == IF w.exc # "none" THEN w ELSE Logged(w, e)

\* A grid refresh of category c that began with the file as "before" has run to
\* its end in world w: the file then and now is noted, for the properties.
Compared(w, c, before) ==
    IF w.exc # "none" THEN w
    ELSE [w EXCEPT !.refreshes = Append(@, [c |-> c, before |-> before, after |-> w.csv[c]])]

\* An exception handled by "except ...: pass".
Caught(w, e) ==
    IF w.exc # e THEN w
    ELSE [w EXCEPT !.exc = "none", !.log = Append(@, [d |-> w.depth, e |-> "except", x |-> e])]

\* An exception that leaves a slot called by Qt: printed, and the caller goes on.
Printed(w) ==
    IF w.exc = "none" THEN w
    ELSE [w EXCEPT !.exc = "none", !.log = Append(@, [d |-> w.depth, e |-> "printed", x |-> w.exc])]

\* pd.read_csv / DataFrame.to_csv (call) reaching the file: the access the event
\* is set to fail at raises OSError, any other goes through.
Access(w, call) ==
    IF w.fault = 1
    THEN Raise([w EXCEPT !.fault = 0,
                         !.log = Append(@, [d |-> w.depth, e |-> "OSError", x |-> call])],
               "OSError")
    ELSE IF w.fault = 0 THEN w
    ELSE [w EXCEPT !.fault = @ - 1]

\* f"{p[1]} {p[2]} {p[3]}" for p in df.itertuples()
ItemText(r) == r.cells[1].v \o <<" ">> \o r.cells[2].v \o <<" ">> \o r.cells[3].v

ComboItems(df) == [i \in 1..Len(df) |-> ItemText(df[i])]

\* combo.currentText() right after clear() and addItems(): the first item, or ""
CurrentText(items) == IF items = <<>> THEN <<>> ELSE items[1]

\* The positions of df whose Personnummer equals the str personal_nr.
Matching(df, personal_nr) == {i \in 1..Len(df) : df[i].cells[1] = StrCell(personal_nr)}

\* --------------------------------------------------------------------------
\* Observers
\* --------------------------------------------------------------------------

\* DeletePatient.update_sd / update_td / update_kd
update_d(w, c) ==
    LET w0 == Access(w, "read_csv")
    IN  IF w0.exc # "none" THEN w0
        ELSE IF w0.csv[c].header = <<>> THEN Raise(w0, "EmptyDataError")
        ELSE LET df == read_csv(w0.csv[c])
             IN  Logged([w0 EXCEPT !.mem[c] = df, !.dcombo[c] = ComboItems(df)], KeyD(c))

\* UpdateNote.update_sc / update_tc / update_kc
update_c(w, c) ==
    IF ~w.ncconn[c] /\ w.strict THEN Raise(w, "RuntimeError")
    ELSE LET w0 == Access([w EXCEPT !.ncconn[c] = FALSE], "read_csv") IN
         IF w0.exc # "none" THEN w0
    ELSE IF w0.csv[c].header = <<>> THEN Raise(w0, "EmptyDataError")
    ELSE LET df == read_csv(w0.csv[c])
             w1 == [w0 EXCEPT !.mem[c] = df, !.ncombo[c] = ComboItems(df)]
             personal_nr == Slice(CurrentText(ComboItems(df)), 11)
             record == Matching(df, personal_nr)
         IN  IF Cardinality(record) # 1 THEN Raise(w1, "ValueError")
             ELSE IF df[CHOOSE i \in record : TRUE].cells[NCols].k # "str"
                  THEN Raise(w1, "TypeError")
             ELSE Logged([w1 EXCEPT !.ncconn[c] = TRUE], KeyC(c))

\* Data.when_change_has_been_made_directly_on_samsa_table / _tes_ / _korttid_
when_change_has_been_made_directly(w, c) ==
    LET w1 == update_d(w, c)
    IN  IF w1.exc # "none" THEN w1 ELSE update_c(w1, c)

\* Data.save_to_samsa_csv / save_to_tes_csv / save_to_korttid_csv
RECURSIVE save_to_csv(_, _, _)

\* A check_if_valid that accepts every text, which C6 and C31 must tell from the
\* real one.
check_if_valid_accepting(column, text) == TRUE

\* Display.check_if_valid: a column without a case returns None
check_if_valid(column, text) ==
    CASE column = 0 -> check_format_personal_nr(text)
      [] column = 3 -> text \in {Centrum, Norrmalm, Osterlanggatan4, Margaretagatan9}
      [] column = 4 -> text \in {Ja, Nej}
      [] column \in {1, 2, 6} -> text # <<>>
      [] OTHER -> FALSE

\* A cell_changed that changes the DataFrame in memory and does not save it, which
\* C3 must tell from the real one.
cell_changed_unsaved(w, row, column, text, c) ==
    IF ~check_if_valid(column, text) THEN w
    ELSE IF row >= Len(w.mem[c]) THEN Raise(w, "IndexError")
    ELSE [w EXCEPT !.mem[c][row + 1].cells[column + 1] = StrCell(text)]

\* A cell_changed whose save notifies the grid as well (skip_update False) until the
\* slots are nested two deep, which C33 must tell from the real one.
cell_changed_refreshing(w, row, column, text, c) ==
    IF ~check_if_valid(column, text) THEN w
    ELSE IF row >= Len(w.mem[c]) THEN Raise(w, "IndexError")
    ELSE save_to_csv([w EXCEPT !.mem[c][row + 1].cells[column + 1] = StrCell(text)], c,
                     w.depth >= 2)

\* Display.cell_changed(row, column, item, t)
cell_changed(w, row, column, text, c) ==
    IF ~check_if_valid(column, text) THEN w
    ELSE IF row >= Len(w.mem[c]) THEN Raise(w, "IndexError")
    ELSE save_to_csv([w EXCEPT !.mem[c][row + 1].cells[column + 1] = StrCell(text)], c, TRUE)

\* The table's cellChanged signal reaching the slot of Display.connect_tables from
\* inside a handler: the slot runs to its end, an exception it raises is printed.
emit_cellChanged(w, row, column, text, c) ==
    IF ~w.gconn[c] THEN w
    ELSE Printed([cell_changed([Logged(w, "cellChanged") EXCEPT !.depth = w.depth + 1],
                               row, column, text, c)
                  EXCEPT !.depth = w.depth])

\* table.setItem(i, j, QTableWidgetItem(text)): ignored outside the table's rows
setItem(w, i, j, text, c) ==
    IF i >= Len(w.grid[c]) THEN w
    ELSE emit_cellChanged([w EXCEPT !.grid[c][i + 1][j + 1] = text], i, j, text, c)

\* The loops of Display.update_samsa_table and Display.repopulate_table over
\* range(n) x range(shape[1]), from cell (i, j) on; each cell is str(df.iloc[i, j])
\* of the DataFrame as it is when the cell is reached.
RECURSIVE fill_table(_, _, _, _, _)
fill_table(w, c, n, i, j) ==
    IF w.exc # "none" \/ i >= n THEN w
    ELSE IF j >= NCols THEN fill_table(w, c, n, i + 1, 0)
    ELSE IF i >= Len(w.mem[c]) THEN Raise(w, "IndexError")
    ELSE fill_table(setItem(w, i, j, w.mem[c][i + 1].cells[j + 1].v, c), c, n, i, j + 1)

\* Display.update_samsa_table / update_tes_table / update_korttid_table
update_table(w, c) ==
    LET w0 == Access([w EXCEPT !.grid[c] = <<>>], "read_csv")
    IN  IF w0.exc # "none" THEN w0
    ELSE IF w0.csv[c].header = <<>> THEN Raise(w0, "EmptyDataError")
    ELSE LET df == read_csv(w0.csv[c])
             w1 == [w0 EXCEPT !.mem[c] = df, !.grid[c] = BlankRows(Len(df))]
         IN  Completed(Compared(fill_table(w1, c, Len(df), 0, 0), c, w.csv[c]), KeyDisplay(c))

\* A notification that leaves out the delete view, which C14 must tell from the
\* real one.
notify_observer_notes_only(w, c) ==
    LET w1 == update_c(w, c)
    IN  IF w1.exc # "none" THEN w1 ELSE update_table(w1, c)

\* A notification that refreshes the note view before the delete view, which C25
\* must tell from the real one.
notify_observer_notes_first(w, c) ==
    LET w1 == update_c(w, c)
        w2 == IF w1.exc # "none" THEN w1 ELSE update_d(w1, c)
    IN  IF w2.exc # "none" THEN w2 ELSE update_table(w2, c)

\* Data.notify_sa_observer / notify_te_observer / notify_ko_observer
notify_observer(w, c) ==
    LET w1 == update_d(w, c)
        w2 == IF w1.exc # "none" THEN w1 ELSE update_c(w1, c)
    IN  IF w2.exc # "none" THEN w2 ELSE update_table(w2, c)

save_to_csv(w, c, skip_update) ==
    LET w0 == Access(w, "to_csv")
        w1 == Logged([w0 EXCEPT !.csv[c] = to_csv(w0.mem[c])], FileName(c))
    IN  IF w0.exc # "none" THEN w0
        ELSE IF skip_update THEN when_change_has_been_made_directly(w1, c)
        ELSE notify_observer(w1, c)

\* --------------------------------------------------------------------------
\* Handlers of the user's events
\* --------------------------------------------------------------------------

\* A connect_button that hands the fields over as typed, which C16 must tell from
\* the real one.
connect_button_as_typed(personal_nr, first, last, area, enrolled, typ, note) ==
    <<personal_nr, first, last, area, enrolled, typ, note>>

\* The tuple the lambda of ADDPatient.connect_button passes: empty first name,
\* last name and note become "-".
connect_button(personal_nr, first, last, area, enrolled, typ, note) ==
    <<personal_nr,
      IF first # <<>> THEN first ELSE Dash,
      IF last # <<>> THEN last ELSE Dash,
      area, enrolled, typ,
      IF note # <<>> THEN note ELSE Dash>>

\* An ADDPatient.button_clicked that puts every record into the SAMSA dataset,
\* which C32 must tell from the real one.
ADDPatient_button_clicked_samsa(w, values) ==
    IF ~check_format_personal_nr(values[1]) THEN w
    ELSE LET c == "SAMSA"
             new_row(i) == <<[idx |-> i, cells |-> [j \in 1..NCols |-> StrCell(values[j])]]>>
         IN  IF w.csv[c].header = <<>>
             THEN save_to_csv([w EXCEPT !.mem[c] = new_row(0)], c, FALSE)
             ELSE save_to_csv([w EXCEPT !.mem[c] = read_csv(w.csv[c]) \o
                                                      new_row(Len(read_csv(w.csv[c])))],
                              c, FALSE)

\* ADDPatient.button_clicked(values)
ADDPatient_button_clicked(w, values) ==
    IF ~check_format_personal_nr(values[1]) THEN w
    ELSE IF \A c \in Categories : TypText(c) # values[6] THEN w
    ELSE LET c == CHOOSE c \in Categories : TypText(c) = values[6]
             new_row(i) == <<[idx |-> i, cells |-> [j \in 1..NCols |-> StrCell(values[j])]]>>
             w0 == Access(w, "read_csv")
         IN  IF w0.exc # "none" THEN w0
             ELSE IF w0.csv[c].header = <<>>
             THEN save_to_csv([w0 EXCEPT !.mem[c] = new_row(0)], c, FALSE)
             ELSE LET df == read_csv(w0.csv[c])
                  IN  save_to_csv([w0 EXCEPT !.mem[c] = df \o new_row(Len(df))], c, FALSE)

\* A drop that removes nothing, which C12 must tell from the real one.
drop_nothing(df, labels) == df

\* df.drop(label, axis="index"): every row with that index label goes
drop(df, labels) == SelectSeq(df, LAMBDA r : r.idx \notin labels)

\* A DeletePatient.button_clicked that drops every record with the identity, which
\* C11 must tell from the real one.
DeletePatient_button_clicked_all(w, text, c) ==
    LET personal_nr == Split(text, " ")[1]
        hits == Matching(w.mem[c], personal_nr)
    IN  IF hits = {} THEN Caught(Raise(w, "ValueError"), "ValueError")
        ELSE Caught(save_to_csv([w EXCEPT !.mem[c] = drop(@, {@[i].idx : i \in hits})], c,
                                FALSE),
                    "ValueError")

\* DeletePatient.button_clicked(text, flag)
DeletePatient_button_clicked(w, text, c) ==
    LET personal_nr == Split(text, " ")[1]
        hits == Matching(w.mem[c], personal_nr)
    IN  IF Cardinality(hits) # 1 THEN Caught(Raise(w, "ValueError"), "ValueError")
        ELSE LET row_to_drop == w.mem[c][CHOOSE i \in hits : TRUE].idx
             IN  Caught(save_to_csv([w EXCEPT !.mem[c] = drop(@, {row_to_drop})], c, FALSE),
                        "ValueError")

\* UpdateNote.button_clicked(values, flag), values = (text, note)
UpdateNote_button_clicked(w, text, note, c) ==
    LET hits == Matching(w.mem[c], Slice(text, 11))
    IN  IF Cardinality(hits) # 1 THEN Caught(Raise(w, "ValueError"), "ValueError")
        ELSE LET record_index == w.mem[c][CHOOSE i \in hits : TRUE].idx
                 value == StrCell(IF note # <<>> THEN note ELSE Dash)
                 df == [i \in 1..Len(w.mem[c]) |->
                          IF w.mem[c][i].idx = record_index
                          THEN [w.mem[c][i] EXCEPT !.cells[NCols] = value]
                          ELSE w.mem[c][i]]
             IN  Caught(save_to_csv([w EXCEPT !.mem[c] = df], c, FALSE), "ValueError")

\* UpdateSamsa.button_clicked: values.replace(" ", "").split(sep=",")
target_values(text) == Split(Remove(text, " "), ",")

\* An is_correct_format with any() for all(), which C9 must tell from the real one.
is_correct_format_any(values) == \E i \in 1..Len(values) : check_format_personal_nr(values[i])

is_correct_format(values) == \A i \in 1..Len(values) : check_format_personal_nr(values[i])

\* set(list_of_personal_numbers).difference(set(values)), as cells
discharged_of(df, values) ==
    {df[i].cells[1] : i \in 1..Len(df)} \ {StrCell(v) : v \in SeqToSet(values)}

\* set(values).difference(set(list_of_personal_numbers)), as texts
new_of(df, values) ==
    {v \in SeqToSet(values) : \A i \in 1..Len(df) : df[i].cells[1] # StrCell(v)}

reset_index(df) == [i \in 1..Len(df) |-> [df[i] EXCEPT !.idx = i - 1]]

\* The placeholder rows concatenated for the items of "new", in iteration order.
new_entries(items) ==
    [i \in 1..Len(items) |->
        [idx |-> 0, cells |-> [j \in 1..NCols |-> StrCell(IF j = 1 THEN items[i] ELSE Dash)]]]

\* The end of UpdateSamsa.button_clicked, the second save having returned in world
\* w: the text box takes the summary, unless the save raised.
UpdateSamsa_summary(w, deleted, added) ==
    IF w.exc # "none" THEN w
    ELSE [w EXCEPT !.textbox = [summary |-> TRUE,
                                removed |-> [i \in 1..Len(deleted) |-> deleted[i].v],
                                added |-> added]]

\* UpdateSamsa.button_clicked from the first save on, which returned in world w:
\* the file is read again, the rows of "new" are concatenated and saved.
UpdateSamsa_add_new(w, c, deleted, added) ==
    IF w.exc # "none" THEN w
    ELSE LET w1 == Access(w, "read_csv")
         IN  IF w1.exc # "none" THEN w1
             ELSE IF w1.csv[c].header = <<>> THEN Raise(w1, "EmptyDataError")
             ELSE UpdateSamsa_summary(
                      save_to_csv([w1 EXCEPT !.mem[c] = read_csv(w1.csv[c]) \o
                                                             new_entries(added)], c, FALSE),
                      deleted, added)

\* UpdateSamsa.button_clicked(values); deleted and added are the iteration orders
\* of the sets "discharged" and "new".
UpdateSamsa_button_clicked(w, text, deleted, added) ==
    LET c == "SAMSA"
        values == target_values(text)
    IN  IF ~is_correct_format(values) THEN w
        ELSE LET df0 == w.mem[c]
                 discharged == discharged_of(df0, values)
                 kept == reset_index(SelectSeq(df0, LAMBDA r : r.cells[1] \notin discharged))
             IN  UpdateSamsa_add_new(save_to_csv([w EXCEPT !.mem[c] = kept], c, FALSE),
                                     c, deleted, added)

\* The number a numeric cell holds (its integral digits).
RECURSIVE ToNat(_)
ToNat(t) ==
    IF t = <<>> \/ t[Len(t)] \notin Digits THEN 0
    ELSE 10 * ToNat(SubSeq(t, 1, Len(t) - 1)) + DigitValue(t[Len(t)])

NumValue(cell) == ToNat(IF cell.k = "float" THEN SubSeq(cell.v, 1, Len(cell.v) - 2) ELSE cell.v)

\* The order sort_values puts two cells of one column in: missing values last.
CellLess(a, b) ==
    IF a.k = "nan" THEN FALSE
    ELSE IF b.k = "nan" THEN TRUE
    ELSE IF a.k = "str" /\ b.k = "str" THEN TextLess(a.v, b.v)
    ELSE NumValue(a) < NumValue(b)

\* Row r1 sorts before row r2 by the columns cols, the first column deciding first.
KeyLess(r1, r2, cols) ==
    \E k \in 1..Len(cols) :
        /\ CellLess(r1.cells[cols[k]], r2.cells[cols[k]])
        /\ \A m \in 1..(k - 1) :
              /\ ~CellLess(r1.cells[cols[m]], r2.cells[cols[m]])
              /\ ~CellLess(r2.cells[cols[m]], r1.cells[cols[m]])

\* The columns of the sort buttons "first", "last", "area", "enrolled".
sort_columns(flag2) ==
    CASE flag2 = "first" -> <<2>>
      [] flag2 = "last" -> <<3>>
      [] flag2 = "area" -> <<4>>
      [] flag2 = "enrolled" -> <<5, 4>>

\* df.sort_values(cols): the DataFrames it may return, rows keeping their index
\* labels. By one column the default kind is quicksort, which promises no order
\* among equal keys; by several columns pandas sorts lexicographically and stably.
sort_values(df, cols) ==
    LET n == Len(df)
        perms == {[i \in 1..n |-> df[f[i]]] : f \in Permutations(1..n)}
    IN  {p \in perms :
            \A i, j \in 1..n :
                i < j =>
                    /\ ~KeyLess(p[j], p[i], cols)
                    /\ (Len(cols) > 1 /\ ~KeyLess(p[i], p[j], cols)) => p[i].idx < p[j].idx}

\* Display.repopulate_table(df, table), df being the DataFrame just stored
repopulate_table(w, c) == fill_table(w, c, Len(w.mem[c]), 0, 0)

\* The end of Display.button_clicked, repopulate_table having returned in world w:
\* cellChanged is connected again, unless the call raised.
Reconnected(w, c) == IF w.exc # "none" THEN w ELSE [w EXCEPT !.gconn[c] = TRUE]

\* A sort handler that leaves cellChanged connected while it fills the table,
\* which C20 must tell from the real one.
Display_button_clicked_connected(w, c, flag2, sorted) ==
    IF w.csv[c].header = <<>> THEN Raise(w, "EmptyDataError")
    ELSE repopulate_table([w EXCEPT !.grid[c] = BlankRows(Len(w.mem[c])),
                                    !.mem[c] = sorted], c)

\* A sort handler that does not connect cellChanged again when it is done, which
\* C21 must tell from the real one.
Display_button_clicked_disconnected(w, c, flag2, sorted) ==
    IF ~w.gconn[c] /\ w.strict THEN Raise(w, "RuntimeError")
    ELSE repopulate_table([w EXCEPT !.gconn[c] = FALSE,
                                    !.grid[c] = BlankRows(Len(w.mem[c])),
                                    !.mem[c] = sorted], c)

\* Display.button_clicked(flag1, flag2): sorted is the result of sort_values
Display_button_clicked(w, c, flag2, sorted) ==
    IF ~w.gconn[c] /\ w.strict THEN Raise(w, "RuntimeError")
    ELSE LET w1 == Access([w EXCEPT !.gconn[c] = FALSE,
                                     !.grid[c] = BlankRows(Len(w.mem[c]))], "read_csv")
         IN  IF w1.exc # "none" THEN w1
             ELSE IF w.csv[c].header = <<>> THEN Raise(w1, "EmptyDataError")
             ELSE Reconnected(repopulate_table([w1 EXCEPT !.mem[c] = sorted], c), c)

\* The user commits text into cell (row, column) of the grid: the item takes the
\* text and the table emits cellChanged to the slot of Display.connect_tables.
edit_cell(w, row, column, text, c) ==
    LET w1 == [w EXCEPT !.grid[c][row + 1][column + 1] = text]
    IN  IF ~w.gconn[c] THEN w1 ELSE cell_changed(w1, row, column, text, c)

\* --------------------------------------------------------------------------
\* State
\* --------------------------------------------------------------------------

VARIABLES
    csv,        \* the files samsa.csv, tes.csv, korttid.csv, by category
    mem,        \* Data._samsa_df, _tes_df, _korttid_df, by category
    grid,       \* the cell texts of the three tables of Display
    dcombo,     \* the items of the three combo boxes of DeletePatient
    ncombo,     \* the items of the three combo boxes of UpdateNote
    ncconn,     \* whether patientN.currentIndexChanged has its slot connected
    gconn,      \* whether the table's cellChanged has its slot connected
    textbox,    \* the summary in the text box of UpdateSamsa, if it shows one
    strict,     \* whether this PySide6 build raises on a failed disconnect()
    observers,  \* Data._observers: the registered (key, observer) pairs, as inserted
    last,       \* the last event of the user: handler, inputs, what it did, and the
                \* file before and after each grid refresh it completed
    ops         \* number of events so far

vars == <<csv, mem, grid, dcombo, ncombo, ncconn, gconn, textbox, strict, observers, last,
          ops>>

\* The world a handler starts in.
World ==
    [csv |-> csv, mem |-> mem, grid |-> grid, dcombo |-> dcombo, ncombo |-> ncombo,
     ncconn |-> ncconn, gconn |-> gconn, textbox |-> textbox, strict |-> strict,
     log |-> <<>>, exc |-> "none", depth |-> 0, fault |-> 0, refreshes |-> <<>>]

\* What the last event started from.
Before ==
    [csv |-> csv, mem |-> mem, grid |-> grid, dcombo |-> dcombo, ncombo |-> ncombo,
     textbox |-> textbox]

\* The handler returned (or its exception reached the event loop) in world w.
Returns(w, op, c, arg) ==
    /\ csv' = w.csv
    /\ mem' = w.mem
    /\ grid' = w.grid
    /\ dcombo' = w.dcombo
    /\ ncombo' = w.ncombo
    /\ ncconn' = w.ncconn
    /\ gconn' = w.gconn
    /\ textbox' = w.textbox
    /\ strict' = strict
    /\ observers' = observers
    /\ last' = [op |-> op, c |-> c, arg |-> arg, log |-> w.log, exc |-> w.exc, pre |-> Before,
                refreshes |-> w.refreshes]
    /\ ops' = ops + 1

\* A registration that adds an entry whether or not the key is there, which C26
\* must tell from the real one.
register_observer_appending(reg, observer, key) ==
    Append(reg, [key |-> key, observer |-> observer])

\* Data.register_observer(observer, key) on the dict reg: a key that is there keeps
\* its place and takes the new observer, a new key goes last.
register_observer(reg, observer, key) ==
    IF \E i \in 1..Len(reg) : reg[i].key = key
    THEN [i \in 1..Len(reg) |->
             IF reg[i].key = key THEN [key |-> key, observer |-> observer] ELSE reg[i]]
    ELSE Append(reg, [key |-> key, observer |-> observer])

\* The registrations of a start of the program, in the order the widgets are made:
\* Manage.add_tabs makes DeletePatient, then UpdateNote; Window.add_pages makes
\* Display after Manage.
Registrations ==
    <<[observer |-> "DeletePatient", key |-> "sd"],
      [observer |-> "DeletePatient", key |-> "td"],
      [observer |-> "DeletePatient", key |-> "kd"],
      [observer |-> "UpdateNote", key |-> "sc"],
      [observer |-> "UpdateNote", key |-> "tc"],
      [observer |-> "UpdateNote", key |-> "kc"],
      [observer |-> "Display", key |-> "display_samsa"],
      [observer |-> "Display", key |-> "display_tes"],
      [observer |-> "Display", key |-> "display_korttid"]>>

RECURSIVE register_all(_, _)
register_all(reg, q) ==
    IF q = <<>> THEN reg
    ELSE register_all(register_observer(reg, q[1].observer, q[1].key), Tail(q))

\* Everything but the registry as it is after Window.__init__: create_files has
\* written the three files with their header, every widget has read them, the
\* signals are connected.
Started ==
    /\ csv = [c \in Categories |-> HeaderOnly]
    /\ mem = [c \in Categories |-> <<>>]
    /\ grid = [c \in Categories |-> <<>>]
    /\ dcombo = [c \in Categories |-> <<>>]
    /\ ncombo = [c \in Categories |-> <<>>]
    /\ ncconn = [c \in Categories |-> TRUE]
    /\ gconn = [c \in Categories |-> TRUE]
    /\ textbox = NoSummary
    /\ strict \in BOOLEAN
    /\ last = [op |-> "init", c |-> "SAMSA", arg |-> <<>>, log |-> <<>>, exc |-> "none",
               pre |-> [csv |-> csv, mem |-> mem, grid |-> grid, dcombo |-> dcombo,
                        ncombo |-> ncombo, textbox |-> textbox],
               refreshes |-> <<>>]
    /\ ops = 0

\* The state after Window.__init__.
Init == Started /\ observers = register_all(<<>>, Registrations)

\* The state with the registry as Data.__init__ leaves it.
InitRegistry == Started /\ observers = <<>>

\* --------------------------------------------------------------------------
\* What the user enters
\* --------------------------------------------------------------------------

\* The forms filled in on the ADDPatient page: personal number, first name, last
\* name, area, enrolled, note. Area and enrolled come from combo boxes.
AddInputs ==
    {<<PnrA, <<>>, <<>>, Centrum, Ja, <<>>>>,
     <<PnrB, Ann, Bo, Norrmalm, Nej, Ring>>,
     <<PnrBad, Ann, Bo, Centrum, Ja, <<>>>>}

NoteInputs == {<<>>, Ring}

\* Texts typed into a cell of the grid, by column; column 5 (Typ) is hidden.
CellInputs(column) ==
    CASE column = 0 -> {PnrB, PnrBad}
      [] column = 1 -> {<<>>}
      [] column = 2 -> {Bo}
      [] column = 3 -> {Nowhere, Norrmalm}
      [] column = 4 -> {Kanske}
      [] column = 6 -> {Ring}
      [] OTHER -> {}

\* Free text typed as a note, and into the name and note cells of the grid: nothing,
\* a word, and a text that read_csv takes for a missing value.
TextNoteInputs == {<<>>, Ring, NotAvailable}

TextCellInputs(column) ==
    CASE column \in {1, 2} -> {<<>>, Bo}
      [] column = 6 -> {<<>>, NotAvailable}
      [] OTHER -> {}

\* The sort buttons pressed: one sorting by a single column, one by two.
SortInputs == {"first", "enrolled"}

EditableColumns == {0, 1, 2, 3, 4, 6}

\* Texts typed into the box of UpdateSamsa; the last has a malformed element.
InvalidList == PnrA \o <<",">> \o PnrBad

ListInputs == {<<>>, PnrA, PnrB, PnrA \o <<",", " ">> \o PnrB, InvalidList}

\* The text a combo box hands to its button: the selected item, "" when empty.
Selectable(items) == IF items = <<>> THEN {<<>>} ELSE SeqToSet(items)

\* --------------------------------------------------------------------------
\* Events
\* --------------------------------------------------------------------------

\* The ADDPatient button, with the form filled in for a category of cs.
AddIn(cs, n) ==
    /\ ops < n
    /\ \E form \in AddInputs, c \in cs :
          LET values == connect_button(form[1], form[2], form[3], form[4], form[5],
                                       TypText(c), form[6])
          IN  Returns(ADDPatient_button_clicked(World, values), "append", c, values)

\* A DeletePatient button, with the item its combo box shows.
DeleteIn(cs, n) ==
    /\ ops < n
    /\ \E c \in cs :
          \E text \in Selectable(dcombo[c]) :
              Returns(DeletePatient_button_clicked(World, text, c), "delete", c, text)

\* The UpdateSamsa button, with the list typed into its text box.
Reconcile ==
    /\ ops < MaxOps
    /\ \E text \in ListInputs :
          LET values == target_values(text)
          IN  \E deleted \in Orders(discharged_of(mem["SAMSA"], values)),
                 added \in Orders(new_of(mem["SAMSA"], values)) :
                 Returns(UpdateSamsa_button_clicked([World EXCEPT !.textbox = NoSummary],
                                                    text, deleted, added),
                         "reconcile", "SAMSA", text)

\* An UpdateNote button, with the item its combo box shows and the note typed.
EditNoteIn(cs, notes, n) ==
    /\ ops < n
    /\ \E c \in cs, note \in notes :
          \E text \in Selectable(ncombo[c]) :
              Returns(UpdateNote_button_clicked(World, text, note, c), "edit_note", c,
                      [text |-> text, note |-> note])

\* A cell of a grid edited to another text: one of TextCellInputs when free, else
\* one of CellInputs.
EditCellIn(cs, free, n) ==
    /\ ops < n
    /\ \E c \in cs, column \in EditableColumns :
          \E row \in 0..(Len(grid[c]) - 1), text \in (IF free THEN TextCellInputs(column)
                                                    ELSE CellInputs(column)) :
              /\ grid[c][row + 1][column + 1] # text
              /\ Returns(edit_cell(World, row, column, text, c), "edit_cell", c,
                         [row |-> row, column |-> column, text |-> text])

\* A sort button of Display.
SortIn(cs, n) ==
    /\ ops < n
    /\ \E c \in cs, flag2 \in SortInputs :
          \E sorted \in sort_values(read_csv(csv[c]), sort_columns(flag2)) :
              Returns(Display_button_clicked(World, c, flag2, sorted), "sort", c, flag2)

Add == AddIn(Categories, MaxOps)
Delete == DeleteIn(Categories, MaxOps)
EditNote == EditNoteIn(Categories, NoteInputs, MaxOps)
EditCell == EditCellIn(Categories, FALSE, MaxOps)
Sort == SortIn(Categories, MaxOps)

Next == Add \/ Delete \/ Reconcile \/ EditNote \/ EditCell \/ Sort

\* A session of MaxOps events on the three datasets.
Spec == Init /\ [][Next]_vars

AddSamsa == AddIn({"SAMSA"}, MaxSamsaOps)
DeleteSamsa == DeleteIn({"SAMSA"}, MaxSamsaOps)
EditCellSamsa == EditCellIn({"SAMSA"}, FALSE, MaxSamsaOps)
SortSamsa == SortIn({"SAMSA"}, MaxSamsaOps)

NextSamsa == AddSamsa \/ DeleteSamsa \/ EditCellSamsa \/ SortSamsa

\* A longer session that fills, sorts, edits and empties the SAMSA dataset.
SpecSamsa == Init /\ [][NextSamsa]_vars

AddText == AddIn({"SAMSA"}, MaxTextOps)
DeleteText == DeleteIn({"SAMSA"}, MaxTextOps)
EditNoteText == EditNoteIn({"SAMSA"}, TextNoteInputs, MaxTextOps)
EditCellText == EditCellIn({"SAMSA"}, TRUE, MaxTextOps)

NextText == AddText \/ DeleteText \/ EditNoteText \/ EditCellText

\* A session that types free text (names, notes) into the SAMSA dataset.
SpecText == Init /\ [][NextText]_vars

\* Identities typed into the one-line fields (the form, a cell of the grid), which
\* hold no line break, and lists typed into the multi-line box of UpdateSamsa.
FormatIdentities == {PnrA, PnrB, SpacePnrA, PnrASpace, PnrBad}

FormatLists ==
    {PnrA, PnrANewline, NewlinePnrB, SpacePnrA, PnrA \o <<",", "\n">> \o PnrB,
     PnrA \o <<",", " ">> \o PnrB, PnrB \o <<",">> \o PnrANewline}

\* The ADDPatient button with an identity of FormatIdentities.
AddFormat ==
    /\ ops < MaxFormatOps
    /\ \E personal_nr \in FormatIdentities :
          LET values == connect_button(personal_nr, Ann, Bo, Centrum, Ja, TypText("SAMSA"), <<>>)
          IN  Returns(ADDPatient_button_clicked(World, values), "append", "SAMSA", values)

\* An identity cell of the SAMSA grid edited to an identity of FormatIdentities.
EditCellFormat ==
    /\ ops < MaxFormatOps
    /\ \E row \in 0..(Len(grid["SAMSA"]) - 1), text \in FormatIdentities :
          /\ grid["SAMSA"][row + 1][1] # text
          /\ Returns(edit_cell(World, row, 0, text, "SAMSA"), "edit_cell", "SAMSA",
                     [row |-> row, column |-> 0, text |-> text])

\* The UpdateSamsa button with a list of FormatLists.
ReconcileFormat ==
    /\ ops < MaxFormatOps
    /\ \E text \in FormatLists :
          LET values == target_values(text)
          IN  \E deleted \in Orders(discharged_of(mem["SAMSA"], values)),
                 added \in Orders(new_of(mem["SAMSA"], values)) :
                 Returns(UpdateSamsa_button_clicked([World EXCEPT !.textbox = NoSummary],
                                                    text, deleted, added),
                         "reconcile", "SAMSA", text)

NextFormat == AddFormat \/ EditCellFormat \/ ReconcileFormat

\* A session that enters identities, well formed and not, into the SAMSA dataset.
SpecFormat == Init /\ [][NextFormat]_vars

\* Keys and observers handed to Data.register_observer.
RegistryKeys == {"sd", "sc", "display_samsa"}

RegistryObservers == {"DeletePatient", "UpdateNote", "Display"}

\* A call of Data.register_observer.
Register ==
    /\ ops < MaxRegistrations
    /\ \E observer \in RegistryObservers, key \in RegistryKeys :
          /\ observers' = register_observer(observers, observer, key)
          /\ last' = [op |-> "register", c |-> "SAMSA",
                      arg |-> [observer |-> observer, key |-> key],
                      log |-> <<>>, exc |-> "none", pre |-> Before, refreshes |-> <<>>]
    /\ ops' = ops + 1
    /\ UNCHANGED <<csv, mem, grid, dcombo, ncombo, ncconn, gconn, textbox, strict>>

NextRegistry == Register

\* The registry being filled by any callers.
SpecRegistry == InitRegistry /\ [][NextRegistry]_vars

\* The world of an event whose k-th access of a file fails (none when k = 0).
FaultWorld(k) == [World EXCEPT !.fault = k]

AddFault ==
    /\ ops < MaxFaultOps
    /\ \E form \in AddInputs, k \in 0..MaxFaultAt :
          LET values == connect_button(form[1], form[2], form[3], form[4], form[5],
                                       TypText("SAMSA"), form[6])
          IN  Returns(ADDPatient_button_clicked(FaultWorld(k), values), "append", "SAMSA",
                      values)

DeleteFault ==
    /\ ops < MaxFaultOps
    /\ \E text \in Selectable(dcombo["SAMSA"]), k \in 0..MaxFaultAt :
          Returns(DeletePatient_button_clicked(FaultWorld(k), text, "SAMSA"), "delete",
                  "SAMSA", text)

ReconcileFault ==
    /\ ops < MaxFaultOps
    /\ \E text \in {PnrB, PnrA \o <<",", " ">> \o PnrB}, k \in 0..MaxFaultAt :
          LET values == target_values(text)
          IN  \E deleted \in Orders(discharged_of(mem["SAMSA"], values)),
                 added \in Orders(new_of(mem["SAMSA"], values)) :
                 Returns(UpdateSamsa_button_clicked([FaultWorld(k) EXCEPT !.textbox = NoSummary],
                                                    text, deleted, added),
                         "reconcile", "SAMSA", text)

EditNoteFault ==
    /\ ops < MaxFaultOps
    /\ \E text \in Selectable(ncombo["SAMSA"]), k \in 0..MaxFaultAt :
          Returns(UpdateNote_button_clicked(FaultWorld(k), text, Ring, "SAMSA"), "edit_note",
                  "SAMSA", [text |-> text, note |-> Ring])

EditCellFault ==
    /\ ops < MaxFaultOps
    /\ \E row \in 0..(Len(grid["SAMSA"]) - 1), k \in 0..MaxFaultAt :
          /\ grid["SAMSA"][row + 1][3] # Bo
          /\ Returns(edit_cell(FaultWorld(k), row, 2, Bo, "SAMSA"), "edit_cell", "SAMSA",
                     [row |-> row, column |-> 2, text |-> Bo])

NextFault == AddFault \/ DeleteFault \/ ReconcileFault \/ EditNoteFault \/ EditCellFault

\* A session on the SAMSA dataset in which reading or writing samsa.csv may fail.
SpecFault == Init /\ [][NextFault]_vars

\* Texts put into a cell of the Typ column: the names of the categories, nothing,
\* a word.
TypInputs == {TypText("SAMSA"), TypText("TES"), <<>>, Ring}

AddTyp == AddIn(Categories, MaxTypOps)

\* A cell of the Typ column (column 5) of a grid set to another text: cellChanged
\* reaches the slot of Display.connect_tables as for any other column.
EditCellTyp ==
    /\ ops < MaxTypOps
    /\ \E c \in Categories, text \in TypInputs :
          \E row \in 0..(Len(grid[c]) - 1) :
              /\ grid[c][row + 1][6] # text
              /\ Returns(edit_cell(World, row, 5, text, c), "edit_cell", c,
                         [row |-> row, column |-> 5, text |-> text])

NextTyp == AddTyp \/ EditCellTyp

\* A session in which cells of the Typ column are written.
SpecTyp == Init /\ [][NextTyp]_vars

\* --------------------------------------------------------------------------
\* Properties
\* --------------------------------------------------------------------------

\* A sequence as a bag: what it holds, whatever the order.
BagOfSeq(q) == [x \in SeqToSet(q) |-> Cardinality({i \in 1..Len(q) : q[i] = x})]

\* The records of a DataFrame, without their index labels.
Records(df) == BagOfSeq([i \in 1..Len(df) |-> df[i].cells])

\* The identities of the rows of a file.
Identities(file) == {file.rows[i][1] : i \in 1..Len(file.rows)}

\* The entries the last event logged at depth 0 (not inside a slot Qt called) for e.
Count(e) == Cardinality({i \in 1..Len(last.log) : last.log[i].d = 0 /\ last.log[i].e = e})

\* C1: the backing store of each dataset holds at most one row per identity.
C1_OneRowPerIdentity ==
    \A c \in Categories :
        \A i, j \in 1..Len(csv[c].rows) :
            csv[c].rows[i][1] = csv[c].rows[j][1] => i = j

\* C2: after an append with an identity that passes the format check, a fresh read
\* of the backing store yields exactly one record with that identity, and its
\* other fields are the supplied (or defaulted) values.
C2_AppendThenRead ==
    (last.op = "append" /\ check_format_personal_nr(last.arg[1])) =>
        LET df == read_csv(csv[last.c])
            hits == {i \in 1..Len(df) : df[i].cells[1].v = last.arg[1]}
        IN  /\ Cardinality(hits) = 1
            /\ \A i \in hits : \A j \in 1..NCols : df[i].cells[j] = StrCell(last.arg[j])

\* C3: the in-memory dataset of every category and its backing store hold the same
\* records, equal modulo order, whenever an event has been handled.
C3_MemoryMatchesDisk ==
    \A c \in Categories : Records(mem[c]) = Records(read_csv(csv[c]))

\* A cell edit that was saved, in a dataset of two patients.
C3_Witness ==
    /\ last.op = "edit_cell"
    /\ last.exc = "none"
    /\ Identities(csv[last.c]) = {PnrA, PnrB}
    /\ Len(mem[last.c]) = 2
    /\ csv[last.c] # last.pre.csv[last.c]

\* C4: after every event, committed or rejected, the delete view, the note view and
\* the grid of each category show exactly the records and cell texts of its
\* backing store, modulo row order.
C4_ViewsMatchDisk ==
    \A c \in Categories :
        LET items == BagOfSeq(ComboItems(read_csv(csv[c])))
        IN  /\ BagOfSeq(dcombo[c]) = items
            /\ BagOfSeq(ncombo[c]) = items
            /\ BagOfSeq(grid[c]) = BagOfSeq(csv[c].rows)

\* C5: when an event that wrote the backing store of a category returns, every
\* observer of its event class has finished a refresh for each write: the delete
\* view and the note view, and for a structural change the grid as well.
C5_DeliveryComplete ==
    LET writes == Count(FileName(last.c))
    IN  (last.op # "init" /\ writes > 0) =>
            /\ Count(KeyD(last.c)) = writes
            /\ Count(KeyC(last.c)) = writes
            /\ last.op # "edit_cell" => Count(KeyDisplay(last.c)) = writes

\* C6: an append whose identity fails the format check, and a cell edit to a value
\* invalid for its column (identity "abc", area "Nowhere", enrolled "Kanske", an
\* empty first name), leave memory and backing store as they were and notify nobody.
C6_InvalidDiscarded ==
    LET invalid_append == last.op = "append" /\ last.arg[1] = PnrBad
        invalid_edit ==
            /\ last.op = "edit_cell"
            /\ <<last.arg.column, last.arg.text>> \in
                   {<<0, PnrBad>>, <<1, <<>>>>, <<3, Nowhere>>, <<4, Kanske>>}
    IN  (invalid_append \/ invalid_edit) =>
            /\ csv = last.pre.csv
            /\ mem = last.pre.mem
            /\ last.log = <<>>

\* The area of a stored patient edited to "Nowhere": the grid shows it, the
\* DataFrame keeps "Centrum".
C6_Witness ==
    /\ last.op = "edit_cell"
    /\ last.arg.column = 3
    /\ last.arg.text = Nowhere
    /\ grid[last.c][last.arg.row + 1][4] = Nowhere
    /\ mem[last.c][last.arg.row + 1].cells[4] = StrCell(Centrum)

\* C7: a reconcile whose list passes the format check reports removed = E \ T and
\* added = T \ E, E being the identities stored before and T those of the list, and
\* afterwards the identities of the backing store are exactly T.
C7_Reconcile ==
    LET T == SeqToSet(target_values(last.arg))
        E == Identities(last.pre.csv["SAMSA"])
    IN  (last.op = "reconcile" /\ is_correct_format(target_values(last.arg))) =>
            /\ textbox.summary
            /\ SeqToSet(textbox.removed) = E \ T
            /\ SeqToSet(textbox.added) = T \ E
            /\ Identities(csv["SAMSA"]) = T

\* C8: reconcile is idempotent: in the state a reconcile with a well-formed list
\* has left, a second reconcile with the same list reports empty removed and added
\* lists and leaves the backing store as it is.
C8_ReconcileIdempotent ==
    (last.op = "reconcile" /\ is_correct_format(target_values(last.arg))) =>
        LET values == target_values(last.arg)
        IN  \A deleted \in Orders(discharged_of(mem["SAMSA"], values)),
               added \in Orders(new_of(mem["SAMSA"], values)) :
               LET again == UpdateSamsa_button_clicked([World EXCEPT !.textbox = NoSummary],
                                                       last.arg, deleted, added)
               IN  /\ again.textbox = [summary |-> TRUE, removed |-> <<>>, added |-> <<>>]
                   /\ again.csv = csv

\* C9: a reconcile whose list has an element that fails the format check removes
\* and adds nothing, persists nothing, notifies nobody and reports no summary.
C9_InvalidListNoOp ==
    (last.op = "reconcile" /\ last.arg \in {<<>>, InvalidList}) =>
        /\ csv = last.pre.csv
        /\ mem = last.pre.mem
        /\ last.log = <<>>
        /\ ~textbox.summary

\* A list with a malformed element submitted while two patients are stored.
C9_Witness ==
    /\ last.op = "reconcile"
    /\ last.arg = InvalidList
    /\ Identities(csv["SAMSA"]) = {PnrA, PnrB}

\* C10: a delete of an identity that exactly one record of the category has removes
\* that record from the backing store and no other, leaves the other records as
\* they were, and notifies the observers of a structural change, whatever the order
\* of the rows in memory.
C10_DeleteOne ==
    LET c == last.c
        before == last.pre.csv[c].rows
        hits == {i \in 1..Len(before) : before[i][1] = Split(last.arg, " ")[1]}
    IN  (last.op = "delete" /\ Cardinality(hits) = 1) =>
            /\ BagOfSeq(csv[c].rows) =
                   BagOfSeq(SelectSeq(before, LAMBDA r : r[1] # Split(last.arg, " ")[1]))
            /\ Records(mem[c]) = Records(read_csv(csv[c]))
            /\ Len(last.log) >= 2
            /\ last.log[1].e = FileName(c)
            /\ last.log[2].e = KeyD(c)

\* The records of category c that had the personal number nr when the last event
\* began.
HitsBefore(c, nr) ==
    {i \in 1..Len(last.pre.mem[c]) : last.pre.mem[c][i].cells[1].v = nr}

\* The last event wrote no file and called no observer.
Quiet == \A i \in 1..Len(last.log) : last.log[i].e = "except"

\* C11: a delete or an edit_note whose identity resolves to no record or to more
\* than one leaves memory and backing store as they were, persists nothing,
\* notifies nobody and raises nothing.
C11_UnresolvedNoOp ==
    LET nr == IF last.op = "delete" THEN Split(last.arg, " ")[1]
              ELSE Slice(last.arg.text, 11)
    IN  (last.op \in {"delete", "edit_note"} /\ Cardinality(HitsBefore(last.c, nr)) # 1) =>
            /\ csv = last.pre.csv
            /\ mem = last.pre.mem
            /\ Quiet
            /\ last.exc = "none"

\* A delete of an identity that two stored records have.
C11_Witness ==
    /\ last.op = "delete"
    /\ Cardinality(HitsBefore(last.c, Split(last.arg, " ")[1])) = 2

\* C12: delete is idempotent: in the state a delete has left, a second delete of
\* the same identity changes neither memory nor backing store, persists nothing
\* and notifies nobody.
C12_DeleteIdempotent ==
    last.op = "delete" =>
        LET again == DeletePatient_button_clicked(World, last.arg, last.c)
        IN  /\ again.csv = csv
            /\ again.mem = mem
            /\ \A i \in 1..Len(again.log) : again.log[i].e = "except"

\* A delete that removed one of two stored records.
C12_Witness ==
    /\ last.op = "delete"
    /\ Len(last.pre.csv[last.c].rows) = 2
    /\ Len(csv[last.c].rows) = 1

\* C13: an edit_note of a uniquely identified record leaves in the backing store
\* the rows it held before, with the note of that record set to the new note, or
\* to "-" when the new note is empty, and nothing else changed.
C13_EditNoteFrame ==
    LET c == last.c
        nr == Slice(last.arg.text, 11)
        note == IF last.arg.note # <<>> THEN last.arg.note ELSE Dash
        before == last.pre.csv[c].rows
        expected == [i \in 1..Len(before) |->
                        IF before[i][1] = nr THEN [before[i] EXCEPT ![NCols] = note]
                        ELSE before[i]]
    IN  (last.op = "edit_note" /\ Cardinality(HitsBefore(c, nr)) = 1) =>
            BagOfSeq(csv[c].rows) = BagOfSeq(expected)

C15_EditCellFrame ==
    LET c == last.c
        row == last.arg.row
        column == last.arg.column
        was == last.pre.mem[c]
        before == last.pre.csv[c].rows
        expected == [before EXCEPT ![was[row + 1].idx + 1][column + 1] = last.arg.text]
    IN  (/\ last.op = "edit_cell"
         /\ <<column, last.arg.text>> \in
                {<<0, PnrB>>, <<1, Bo>>, <<2, Bo>>, <<3, Norrmalm>>, <<6, Ring>>,
                 <<6, NotAvailable>>}) =>
            /\ row < Len(was)
            /\ BagOfSeq(csv[c].rows) = BagOfSeq(expected)
            /\ last.exc = "none"
            /\ last.log = <<[d |-> 0, e |-> FileName(c), x |-> "none"],
                            [d |-> 0, e |-> KeyD(c), x |-> "none"],
                            [d |-> 0, e |-> KeyC(c), x |-> "none"]>>

\* C16: an append with a well-formed identity and nothing typed as first name, last
\* name and note (the form of PnrA) succeeds and stores "-" in the three fields; an
\* edit of a first name, last name or note cell to the empty text is rejected: the
\* backing store and the dataset keep the stored value and nobody is notified.
C16_EmptyOptionalText ==
    LET c == last.c
        rows == csv[c].rows
        before == last.pre.csv[c].rows
    IN  /\ (last.op = "append" /\ last.arg[1] = PnrA) =>
               /\ Len(rows) = Len(before) + 1
               /\ rows[Len(rows)] = <<PnrA, Dash, Dash, Centrum, Ja, TypText(c), Dash>>
        /\ (last.op = "edit_cell" /\ last.arg.column \in {1, 2, 6} /\ last.arg.text = <<>>) =>
               /\ csv = last.pre.csv
               /\ mem = last.pre.mem
               /\ last.log = <<>>
               /\ last.exc = "none"

\* The note cell of a record that was appended with nothing typed in the optional
\* fields has been edited to the empty text.
C16_Witness ==
    /\ last.op = "edit_cell"
    /\ last.arg.column = 6
    /\ last.arg.text = <<>>
    /\ last.arg.row < Len(mem[last.c])
    /\ mem[last.c][last.arg.row + 1].cells[1].v = PnrA
    /\ <<PnrA, Dash, Dash, Centrum, Ja, TypText(last.c), Dash>> \in SeqToSet(csv[last.c].rows)

\* C17: while an observer is being refreshed nothing is validated, changed,
\* persisted or notified: no cellChanged slot runs inside a refresh, so every write
\* and every refresh of an event is made by the event's own handler (depth 0).
C17_RefreshReadOnly ==
    \A i \in 1..Len(last.log) : last.log[i].e # "cellChanged" /\ last.log[i].d = 0

\* C18: an operation that changes a dataset persists once and notifies afterwards,
\* as one unit: the handler's first step after validating and changing the dataset
\* is the one write of the backing store, every refresh of an observer comes after
\* it, and the handler does not write again once observers have been notified.
C18_PersistThenNotify ==
    LET own == {i \in 1..Len(last.log) : last.log[i].d = 0 /\ last.log[i].e = FileName(last.c)}
    IN  (last.op \in {"append", "delete", "edit_note", "edit_cell", "reconcile"}
            /\ ~Quiet) => own = {1}

\* The one stable result of sorting df by cols: ordered by the key, rows with equal
\* keys in the order of their index labels.
StableSorted(df, cols) ==
    LET n == Len(df)
    IN  CHOOSE p \in {[i \in 1..n |-> df[f[i]]] : f \in Permutations(1..n)} :
            \A i, j \in 1..n :
                i < j => /\ ~KeyLess(p[j], p[i], cols)
                         /\ ~KeyLess(p[i], p[j], cols) => p[i].idx < p[j].idx

\* C19: after a sort the grid and the dataset hold the records of a fresh read of
\* the backing store, ordered by the key of the button and stable: records with
\* equal keys are in the order the backing store has them in.
C19_SortStable ==
    last.op = "sort" =>
        LET c == last.c
            expected == StableSorted(read_csv(csv[c]), sort_columns(last.arg))
        IN  /\ last.exc = "none"
            /\ Len(mem[c]) = Len(expected)
            /\ \A i \in 1..Len(expected) : mem[c][i].cells = expected[i].cells
            /\ grid[c] = [i \in 1..Len(expected) |->
                              [j \in 1..NCols |-> expected[i].cells[j].v]]

\* C20: a sort leaves the backing stores as they were, content and row order, and
\* neither writes a file nor refreshes an observer.
C20_SortLeavesStore ==
    last.op = "sort" => csv = last.pre.csv /\ last.log = <<>>

\* A sort has put the records in another order than the backing store has them in.
C20_Witness ==
    /\ last.op = "sort"
    /\ last.exc = "none"
    /\ Len(mem[last.c]) >= 2
    /\ mem[last.c][1].idx # 0
    /\ grid[last.c][1] # csv[last.c].rows[1]

\* C21: while a sort fills the grid the cellChanged slot is disconnected, so no cell
\* is validated or persisted by the sort, whatever its key; when the sort returns
\* the slot is connected again, and it is connected after every event.
C21_SortSuppressesCellChanged ==
    /\ \A c \in Categories : gconn[c]
    /\ last.op = "sort" =>
           /\ last.exc = "none"
           /\ \A i \in 1..Len(last.log) :
                  last.log[i].e \notin {"cellChanged", FileName(last.c)}

\* A sort has filled a grid of two records or more.
C21_Witness ==
    /\ last.op = "sort"
    /\ Len(grid[last.c]) >= 2
    /\ \A i \in 1..Len(grid[last.c]) : grid[last.c][i] # NoItem
    /\ gconn[last.c]

\* C22: the identity of a stored record never changes: an operation that neither
\* creates nor removes records (edit_cell, edit_note, sort) leaves every backing
\* store with the identities it had, each as often as before.
C22_IdentityImmutable ==
    last.op \in {"edit_cell", "edit_note", "sort"} =>
        \A c \in Categories :
            BagOfSeq([i \in 1..Len(csv[c].rows) |-> csv[c].rows[i][1]])
                = BagOfSeq([i \in 1..Len(last.pre.csv[c].rows) |-> last.pre.csv[c].rows[i][1]])

\* C23: every row of every backing store has an area of the four of the form's
\* combo box and an enrolled flag that is Ja or Nej.
C23_PersistedCellsValid ==
    \A c \in Categories :
        \A i \in 1..Len(csv[c].rows) :
            /\ csv[c].rows[i][4] \in {Centrum, Norrmalm, Osterlanggatan4, Margaretagatan9}
            /\ csv[c].rows[i][5] \in {Ja, Nej}

\* Six digits, a hyphen, four digits and nothing else.
ExactIdentity(s) ==
    /\ Len(s) = 11
    /\ \A i \in (1..6) \cup (8..11) : s[i] \in {"0","1","2","3","4","5","6","7","8","9"}
    /\ s[7] = "-"

\* C24: append, edit_cell on the identity column and reconcile go on to write the
\* backing store exactly when the identity (every element of the list) is six
\* digits, a hyphen and four digits with nothing before or after.
C24_ExactIdentityCheck ==
    /\ last.op = "append" => (~Quiet <=> ExactIdentity(last.arg[1]))
    /\ (last.op = "edit_cell" /\ last.arg.column = 0) =>
           /\ ~Quiet => ExactIdentity(last.arg.text)
           /\ (ExactIdentity(last.arg.text) /\ last.arg.row < Len(last.pre.mem[last.c]))
                  => ~Quiet
    /\ last.op = "reconcile" =>
           LET values == target_values(last.arg)
           IN  ~Quiet <=> \A i \in 1..Len(values) : ExactIdentity(values[i])

\* The place of a key in the registry, in insertion order.
Position(key) == CHOOSE i \in 1..Len(observers) : observers[i].key = key

\* C25: the observers of a category are refreshed in the order they registered in:
\* after each write of the handler the delete view comes first, the note view
\* after the delete view, the grid after the note view, and that is the order of
\* their keys in the registry.
C25_RegistrationOrder ==
    last.op \in {"append", "delete", "reconcile", "edit_note"} =>
        LET c == last.c
            own == SelectSeq(last.log,
                             LAMBDA en : en.d = 0 /\ en.e \in {FileName(c), KeyD(c), KeyC(c),
                                                               KeyDisplay(c)})
            before(k) == IF k = 1 THEN "none" ELSE own[k - 1].e
        IN  /\ Position(KeyD(c)) < Position(KeyC(c))
            /\ Position(KeyC(c)) < Position(KeyDisplay(c))
            /\ \A k \in 1..Len(own) :
                   /\ own[k].e = KeyD(c) => before(k) = FileName(c)
                   /\ own[k].e = KeyC(c) => before(k) = KeyD(c)
                   /\ own[k].e = KeyDisplay(c) => before(k) = KeyC(c)

\* An append has refreshed the delete view, the note view and the grid.
C25_Witness ==
    /\ last.op = "append"
    /\ last.exc = "none"
    /\ \A key \in {KeyD(last.c), KeyC(last.c), KeyDisplay(last.c)} :
           \E i \in 1..Len(last.log) : last.log[i] = [d |-> 0, e |-> key, x |-> "none"]

\* The keys of the registry.
KeysOf(reg) == {reg[i].key : i \in 1..Len(reg)}

\* C26: the registry holds one observer per key at most, a registration under a
\* key that is there replaces its observer, and no step takes a key away.
C26_OneHandlePerKey ==
    [][/\ \A i, j \in 1..Len(observers') : observers'[i].key = observers'[j].key => i = j
       /\ KeysOf(observers) \subseteq KeysOf(observers')
       /\ last'.op = "register" =>
              /\ \E i \in 1..Len(observers') : observers'[i] = last'.arg
              /\ \A i \in 1..Len(observers) :
                     observers[i].key # last'.arg.key => observers[i] \in SeqToSet(observers')
              /\ Len(observers') = Len(observers)
                                     + (IF last'.arg.key \in KeysOf(observers) THEN 0 ELSE 1)]_vars

\* A key that was registered before has been registered again, for another
\* observer, while other keys are registered too.
C26_Witness ==
    /\ last.op = "register"
    /\ Len(observers) >= 2
    /\ Len(observers) < ops
    /\ observers[1] = last.arg
    /\ observers[2].observer # last.arg.observer

\* C27: a backing store without records is no error. An event on a category whose
\* store is empty before it or after it raises nothing to the event loop, and when
\* it writes the store its notification raises nothing either; an append with a
\* well-formed identity to an empty store leaves exactly the new record in it and
\* refreshes delete view, note view and grid.
C27_EmptyStoreNoError ==
    LET c == last.c
        refreshed(key) == \E i \in 1..Len(last.log) :
                              last.log[i] = [d |-> 0, e |-> key, x |-> "none"]
    IN  (/\ last.op \in {"append", "delete", "reconcile", "edit_note", "edit_cell"}
         /\ last.pre.csv[c].rows = <<>> \/ csv[c].rows = <<>>) =>
            /\ last.exc = "none"
            /\ ~Quiet => \A i \in 1..Len(last.log) : last.log[i].e # "except"
            /\ (last.op = "append" /\ ExactIdentity(last.arg[1])) =>
                   /\ csv[c].rows = <<last.arg>>
                   /\ refreshed(KeyD(c)) /\ refreshed(KeyC(c)) /\ refreshed(KeyDisplay(c))

\* C28: a failed read or write of a file is not swallowed. When it happens in the
\* handler of the event, nothing follows it (no write, no refresh, no except
\* clause) and the OSError leaves the handler; when it happens in a slot called
\* from inside the handler, the next thing is the OSError leaving that slot.
C28_IOFailurePropagates ==
    last.op \in {"append", "delete", "edit_note", "edit_cell", "reconcile"} =>
        \A i \in 1..Len(last.log) :
            last.log[i].e = "OSError" =>
                IF last.log[i].d = 0
                THEN i = Len(last.log) /\ last.exc = "OSError"
                ELSE /\ i < Len(last.log)
                     /\ last.log[i + 1] = [d |-> last.log[i].d - 1, e |-> "printed",
                                           x |-> "OSError"]

\* The write of a delete that had found its record has failed.
C28_Witness ==
    /\ last.op = "delete"
    /\ Cardinality(HitsBefore(last.c, Split(last.arg, " ")[1])) = 1
    /\ last.log = <<[d |-> 0, e |-> "OSError", x |-> "to_csv"]>>
    /\ last.exc = "OSError"
    /\ csv = last.pre.csv

\* C29: what has been persisted is read back as the same text: a fresh read of a
\* backing store yields, for every field of every row, the text the file holds,
\* as text.
C29_RoundTripOnText ==
    \A c \in Categories :
        LET df == read_csv(csv[c])
        IN  /\ Len(df) = Len(csv[c].rows)
            /\ \A i \in 1..Len(df) :
                   \A j \in 1..NCols : df[i].cells[j] = StrCell(csv[c].rows[i][j])

\* The columns the grids of Display show (the Typ column is hidden).
DisplayColumns == <<"Personnummer", "Förnamn", "Efternamn", "Område", "Inskriven", "Anteckning">>

\* C30: a row of a backing store has the six display columns and no other: the
\* file that holds it has exactly these columns, neither the category nor an
\* index among them, and the row has one field for each.
C30_SixStoredColumns ==
    \A c \in Categories :
        \A i \in 1..Len(csv[c].rows) :
            /\ csv[c].header = DisplayColumns
            /\ Len(csv[c].rows[i]) = Len(DisplayColumns)


\* C31: the category of a record is fixed: whatever text a cell of the category
\* column is set to, the files and the DataFrames stay as they were, nothing is
\* saved and no observer is refreshed.
C31_CategoryFixed ==
    (last.op = "edit_cell" /\ last.arg.column = 5) =>
        /\ csv = last.pre.csv
        /\ mem = last.pre.mem
        /\ dcombo = last.pre.dcombo
        /\ ncombo = last.pre.ncombo
        /\ last.log = <<>>
        /\ last.exc = "none"

\* C31 happens: a cell of the category column of a stored SAMSA record is set to
\* the name of another category.
C31_Witness ==
    /\ last.op = "edit_cell"
    /\ last.c = "SAMSA"
    /\ last.arg.column = 5
    /\ last.arg.text = TypText("TES")
    /\ last.arg.row < Len(csv["SAMSA"].rows)
    /\ csv["SAMSA"].rows[last.arg.row + 1][6] = TypText("SAMSA")
    /\ grid["SAMSA"][last.arg.row + 1][6] = TypText("TES")

\* What the log calls the file and the three views of category c.
NamesOf(c) == {FileName(c), KeyD(c), KeyC(c), KeyDisplay(c)}

\* C32: an event on category c leaves the other two categories alone: their
\* files, their DataFrames and their views are as before the event, and none of
\* their files was written and none of their views refreshed on the way. An
\* append with a well-formed identity writes the file its Typ field names.
C32_OtherCategoriesUntouched ==
    /\ \A d \in Categories \ {last.c} :
          /\ csv[d] = last.pre.csv[d]
          /\ mem[d] = last.pre.mem[d]
          /\ grid[d] = last.pre.grid[d]
          /\ dcombo[d] = last.pre.dcombo[d]
          /\ ncombo[d] = last.pre.ncombo[d]
          /\ \A i \in 1..Len(last.log) : last.log[i].e \notin NamesOf(d)
    /\ (last.op = "append" /\ check_format_personal_nr(last.arg[1])) =>
          /\ last.arg[6] = TypText(last.c)
          /\ Len(last.log) > 0
          /\ last.log[1].e = FileName(last.c)
          /\ \E i \in 1..Len(csv[last.c].rows) : csv[last.c].rows[i][1] = last.arg[1]

\* C32 happens: a record is appended to TES while SAMSA holds a record.
C32_Witness ==
    /\ last.op = "append"
    /\ last.c = "TES"
    /\ last.arg[1] = PnrB
    /\ last.pre.csv["TES"].rows = <<>>
    /\ Len(csv["TES"].rows) = 1
    /\ Len(csv["SAMSA"].rows) = 1
    /\ \E i \in 1..Len(last.log) : last.log[i].e = KeyDisplay("TES")

\* The log entries of the last event for e, at any depth.
Entries(e) == {i \in 1..Len(last.log) : last.log[i].e = e}

\* C33: the chain of saves and refreshes one event starts is finite. The slot of
\* cellChanged runs only from a grid refresh of the event itself and never inside
\* another slot (nothing is nested deeper than one slot); the save of a slot never
\* refreshes a grid; and the slot runs at most once for each cell of the rows the
\* DataFrame had before the event and the file has after it.
C33_NoNotificationCycle ==
    /\ \A i \in 1..Len(last.log) :
          /\ last.log[i].d <= 1
          /\ last.log[i].e = "cellChanged" => last.log[i].d = 0
          /\ last.log[i].d = 1 => \A c \in Categories : last.log[i].e # KeyDisplay(c)
    /\ Cardinality(Entries("cellChanged")) <=
          NCols * (Len(last.pre.mem[last.c]) + Len(csv[last.c].rows))

\* C33 happens: a grid refresh of two rows starts saves from the slot of
\* cellChanged, one for each cell that check_if_valid accepts, and completes.
C33_Witness ==
    /\ last.op = "append"
    /\ last.exc = "none"
    /\ Len(csv[last.c].rows) = 2
    /\ Cardinality(Entries("cellChanged")) = 2 * NCols
    /\ \E i \in 1..Len(last.log) : last.log[i].d = 1 /\ last.log[i].e = FileName(last.c)
    /\ last.log[Len(last.log)] = [d |-> 0, e |-> KeyDisplay(last.c), x |-> "none"]

\* C34: a grid refresh does not alter the data: when it completes, the file of
\* its category holds the rows, in the order and with the cell texts, it held when
\* the refresh began.
C34_RefreshKeepsStore ==
    \A i \in 1..Len(last.refreshes) : last.refreshes[i].after = last.refreshes[i].before

\* C35: between events the grid of each category has one row for each row of the
\* DataFrame, and row r of the grid shows row r of the DataFrame: each of its
\* cells holds the text of the cell of the DataFrame, or a text typed into it that
\* check_if_valid rejected.
C35_GridShowsMemory ==
    \A c \in Categories :
        /\ Len(grid[c]) = Len(mem[c])
        /\ \A r \in 1..Len(grid[c]) :
               \A j \in 1..NCols :
                   \/ grid[c][r][j] = mem[c][r].cells[j].v
                   \/ ~check_if_valid(j - 1, grid[c][r][j])

\* The rows of a file that hold the identity id.
RowsOf(rows, id) == {i \in 1..Len(rows) : rows[i][1] = id}

\* C36: no event rearranges a file: two records that are in the file before and
\* after the event (each the one row of its identity) are in the same order
\* after it as before.
C36_StoreOrderKept ==
    \A c \in Categories :
        LET old == last.pre.csv[c].rows
            new == csv[c].rows
        IN  \A a, b \in Identities(last.pre.csv[c]) \cap Identities(csv[c]) :
                (/\ Cardinality(RowsOf(old, a)) = 1 /\ Cardinality(RowsOf(old, b)) = 1
                 /\ Cardinality(RowsOf(new, a)) = 1 /\ Cardinality(RowsOf(new, b)) = 1
                 /\ \A i \in RowsOf(old, a), j \in RowsOf(old, b) : i < j)
                    => \A i \in RowsOf(new, a), j \in RowsOf(new, b) : i < j

\* C37: every identity a file holds has the identity format: six digits, a
\* hyphen, four digits, and nothing else.
C37_StoredIdentitiesWellFormed ==
    \A c \in Categories : \A id \in Identities(csv[c]) : ExactIdentity(id)

\* C38: no first name, last name or note that a file holds is the empty string.
C38_NoEmptyText ==
    \A c \in Categories :
        \A i \in 1..Len(csv[c].rows) :
            \A j \in {2, 3, NCols} : csv[c].rows[i][j] # <<>>
====
